---- MODULE Spec2Model ----
(***************************************************************************)
(* SketchFlow: the application state controller (App component) and the   *)
(* audio container encoder of services/geminiService.ts.                   *)
(*                                                                         *)
(* JavaScript values are encoded as follows.  An optional value (null or   *)
(* undefined against a present value) is a tuple: <<>> when absent, <<v>>  *)
(* when present.  An optional string field of a scene is the string itself *)
(* or UNDEF.  A message text is a sequence of words, so that               *)
(* String.prototype.includes is a search for a contiguous subsequence.     *)
(***************************************************************************)
EXTENDS Integers, Sequences, FiniteSets, TLC

\* ------------------------------------------------------------------ bounds

\* The largest number of segments one script analysis returns.
MaxScenes == 2

\* The largest batch in the runs that draw every kind of provider failure.
MaxFaultScenes == 1

\* The longest decoded PCM payload that is materialised byte by byte.
MaxPcmLen == 3

\* ------------------------------------------------------- JavaScript values

None == <<>>

Some(v) == <<v>>

UNDEF == "undefined"

\* Truthiness of a string-or-undefined value (`!x`, `x || y`).
Falsy(s) == s \in {UNDEF, ""}

\* ----------------------------------------------- audio container encoder

\* DataView.setUint32 / setUint16 byte orders.
U32LE(v) == << v % 256, (v \div 256) % 256, (v \div 65536) % 256, (v \div 16777216) % 256 >>

U32BE(v) == << (v \div 16777216) % 256, (v \div 65536) % 256, (v \div 256) % 256, v % 256 >>

U16LE(v) == << v % 256, (v \div 256) % 256 >>

\* Writing `bytes` into a buffer (a function on byte offsets) at offset `off`.
SetBytes(buf, off, bytes) ==
    [k \in DOMAIN buf |->
        IF k >= off /\ k < off + Len(bytes) THEN bytes[k - off + 1] ELSE buf[k]]

\* new Uint8Array(buffer): the buffer read as a sequence of bytes.
AsBytes(buf) == [k \in 1..44 |-> buf[k - 1]]

sampleRate == 24000

numChannels == 1

bitsPerSample == 16

\* A header whose data-size field is written big-endian (the byte order of the tags).
createWavHeaderBE(pcmDataLength) ==
    LET b0  == [k \in 0..43 |-> 0]
        b1  == SetBytes(b0, 0, U32BE(1380533830))
        b2  == SetBytes(b1, 4, U32LE(36 + pcmDataLength))
        b3  == SetBytes(b2, 8, U32BE(1463899717))
        b4  == SetBytes(b3, 12, U32BE(1718449184))
        b5  == SetBytes(b4, 16, U32LE(16))
        b6  == SetBytes(b5, 20, U16LE(1))
        b7  == SetBytes(b6, 22, U16LE(numChannels))
        b8  == SetBytes(b7, 24, U32LE(sampleRate))
        b9  == SetBytes(b8, 28, U32LE(sampleRate * numChannels * (bitsPerSample \div 8)))
        b10 == SetBytes(b9, 32, U16LE(numChannels * (bitsPerSample \div 8)))
        b11 == SetBytes(b10, 34, U16LE(bitsPerSample))
        b12 == SetBytes(b11, 36, U32BE(1684108385))
        b13 == SetBytes(b12, 40, U32BE(pcmDataLength))
    IN  AsBytes(b13)

\* createWavHeader: the 44-byte header for 24 kHz mono 16-bit PCM.
\* 0x52494646 = 1380533830, 0x57415645 = 1463899717,
\* 0x666d7420 = 1718449184, 0x64617461 = 1684108385.
createWavHeader(pcmDataLength) ==
    LET b0  == [k \in 0..43 |-> 0]
        b1  == SetBytes(b0, 0, U32BE(1380533830))
        b2  == SetBytes(b1, 4, U32LE(36 + pcmDataLength))
        b3  == SetBytes(b2, 8, U32BE(1463899717))
        b4  == SetBytes(b3, 12, U32BE(1718449184))
        b5  == SetBytes(b4, 16, U32LE(16))
        b6  == SetBytes(b5, 20, U16LE(1))
        b7  == SetBytes(b6, 22, U16LE(numChannels))
        b8  == SetBytes(b7, 24, U32LE(sampleRate))
        b9  == SetBytes(b8, 28, U32LE(sampleRate * numChannels * (bitsPerSample \div 8)))
        b10 == SetBytes(b9, 32, U16LE(numChannels * (bitsPerSample \div 8)))
        b11 == SetBytes(b10, 34, U16LE(bitsPerSample))
        b12 == SetBytes(b11, 36, U32BE(1684108385))
        b13 == SetBytes(b12, 40, U32LE(pcmDataLength))
    IN  AsBytes(b13)

\* decode: the char codes of atob's binary string, stored into a Uint8Array.
decode(binaryString) == [k \in 1..Len(binaryString) |-> binaryString[k] % 256]

\* new Blob([wavHeader, pcmBytes]): the parts in order.
WavBlob(wavHeader, pcmBytes) == wavHeader \o pcmBytes

\* Char codes atob may return, and the binary strings drawn from them.
CharCodes == {0, 1, 255}

BinaryStrings == UNION {[1..n -> CharCodes] : n \in 0..MaxPcmLen}

\* PCM lengths whose payload is not materialised: every byte of the 32-bit
\* length field is exercised (TLC's integers end at 2^31 - 1).
LargeLengths == {255, 256, 65535, 65536, 16777215, 16777216, 2147483611}

\* ------------------------------------------------------------ text values

\* String.prototype.includes on word sequences.
Includes(text, needle) ==
    \E k \in 0..(Len(text) - Len(needle)) :
        \A j \in 1..Len(needle) : text[k + j] = needle[j]

NotFoundText == <<"Requested entity was not found">>

\* What a provider call can reject with: an Error with a message, an Error
\* with the empty message (new Error()), a message naming the missing entity,
\* and a thrown value that has no `message` property at all.
Thrown(hasMessage, message) == [hasMessage |-> hasMessage, message |-> message]

PlainErrors == { Thrown(TRUE, <<"quota exceeded">>) }

ProviderErrors ==
    { Thrown(TRUE, <<"quota exceeded">>),
      Thrown(TRUE, <<"404:">> \o NotFoundText \o <<".">>),
      Thrown(TRUE, <<>>),
      Thrown(FALSE, <<>>) }

\* `err.message || fallback`.
MessageOr(err, fallback) ==
    IF err.hasMessage /\ err.message # <<>> THEN err.message ELSE fallback

\* ------------------------------------------------------------------ scenes

\* What the analysis returns for one segment; `order` is optional.
Segment(order, description, dialogue) ==
    [order |-> order, description |-> description, dialogue |-> dialogue]

Segments ==
    { Segment(None, "Alice waves.", "Hello"),
      Segment(Some(0), "Alice waves.", "Hello"),
      Segment(Some(7), "A door opens.", "") }

SegmentLists(segments, maxScenes) == UNION {[1..n -> segments] : n \in 0..maxScenes}

\* The identifiers crypto.randomUUID() draws from.
UUIDs == 1..MaxScenes

\* An identifier source that returns the same value at every call.
randomUUIDConstant(used) == 1

\* crypto.randomUUID(): an identifier no live scene carries.
randomUUID(used) == CHOOSE u \in UUIDs : u \notin used

\* A scene built without the default visual prompt.
NewScenePromptless(s, idx, id) ==
    [ id                 |-> id,
      order              |-> IF s.order # None /\ s.order[1] # 0 THEN s.order[1] ELSE idx,
      description        |-> s.description,
      dialogue           |-> s.dialogue,
      storyboardPrompt   |-> UNDEF,
      isApproved         |-> FALSE,
      storyboardImageUrl |-> UNDEF,
      videoUrl           |-> UNDEF,
      audioUrl           |-> UNDEF ]

\* The scene handleScriptSubmit builds from segment s at 1-based index idx
\* (the code's idx + 1), with the identifier drawn for it.
NewScene(s, idx, id) ==
    [ id                 |-> id,
      order              |-> IF s.order # None /\ s.order[1] # 0 THEN s.order[1] ELSE idx,
      description        |-> s.description,
      dialogue           |-> s.dialogue,
      storyboardPrompt   |-> s.description,
      isApproved         |-> FALSE,
      storyboardImageUrl |-> UNDEF,
      videoUrl           |-> UNDEF,
      audioUrl           |-> UNDEF ]

\* sceneData.map(...): the segments in order, one identifier drawn per segment.
NewScenes(sceneData) ==
    LET RECURSIVE build(_)
        build(k) ==
            IF k = 0 THEN <<>>
            ELSE LET prev == build(k - 1)
                 IN  Append(prev, NewScene(sceneData[k], k,
                                           randomUUID({prev[j].id : j \in 1..(k - 1)})))
    IN  build(Len(sceneData))

NewProject(script, sceneData) ==
    [title |-> "My New Animation", script |-> script, scenes |-> NewScenes(sceneData)]

\* project.scenes.find(s => s.id === sceneId): the first index, or 0.
FindScene(scenes, id) ==
    IF \E k \in 1..Len(scenes) : scenes[k].id = id
    THEN CHOOSE k \in 1..Len(scenes) :
            /\ scenes[k].id = id
            /\ \A j \in 1..(k - 1) : scenes[j].id # id
    ELSE 0

\* scene.storyboardPrompt || scene.description
PromptOf(scene) ==
    IF Falsy(scene.storyboardPrompt) THEN scene.description ELSE scene.storyboardPrompt

\* An approval that sets the flag instead of toggling it.
ApproveScenesSet(scenes, id) ==
    [k \in 1..Len(scenes) |->
        IF scenes[k].id = id THEN [scenes[k] EXCEPT !.isApproved = TRUE] ELSE scenes[k]]

\* handleApproveScene's map.
ApproveScenes(scenes, id) ==
    [k \in 1..Len(scenes) |->
        IF scenes[k].id = id THEN [scenes[k] EXCEPT !.isApproved = ~@] ELSE scenes[k]]

\* A prompt edit that also rewrites the description.
UpdatePromptScenesBoth(scenes, id, newPrompt) ==
    [k \in 1..Len(scenes) |->
        IF scenes[k].id = id
        THEN [scenes[k] EXCEPT !.storyboardPrompt = newPrompt, !.description = newPrompt]
        ELSE scenes[k]]

\* handleUpdatePrompt's map.
UpdatePromptScenes(scenes, id, newPrompt) ==
    [k \in 1..Len(scenes) |->
        IF scenes[k].id = id THEN [scenes[k] EXCEPT !.storyboardPrompt = newPrompt] ELSE scenes[k]]

\* handleGenerateStoryboard's map.
WithImage(scenes, id, imageUrl) ==
    [k \in 1..Len(scenes) |->
        IF scenes[k].id = id THEN [scenes[k] EXCEPT !.storyboardImageUrl = imageUrl] ELSE scenes[k]]

\* A final-video commit that stores the video and leaves the audio for later.
WithVideoAudioSplit(scenes, id, videoUrl, audioUrl) ==
    [k \in 1..Len(scenes) |->
        IF scenes[k].id = id THEN [scenes[k] EXCEPT !.videoUrl = videoUrl] ELSE scenes[k]]

\* handleGenerateFinalVideo's map.
WithVideoAudio(scenes, id, videoUrl, audioUrl) ==
    [k \in 1..Len(scenes) |->
        IF scenes[k].id = id
        THEN [scenes[k] EXCEPT !.videoUrl = videoUrl, !.audioUrl = audioUrl]
        ELSE scenes[k]]

\* Every image-less scene at or after `from`: a bulk run that asks for all at once.
BulkIssueAll(scenes, from) ==
    {k \in from..Len(scenes) : Falsy(scenes[k].storyboardImageUrl)}

\* Every scene at or after `from`, image or not: a bulk run without the skip.
BulkIssueNoSkip(scenes, from) ==
    IF from <= Len(scenes) THEN {from} ELSE {}

\* The loop of handleGenerateAllStoryboards from index `from` up to its next
\* await: the scene it asks an image for (none when the loop runs out).
BulkIssue(scenes, from) ==
    LET missing == {k \in from..Len(scenes) : Falsy(scenes[k].storyboardImageUrl)}
    IN  IF missing = {} THEN {}
        ELSE {CHOOSE k \in missing : \A j \in missing : k <= j}

\* ------------------------------------------------- provider response values

VideoUrl == "blob:video"

AudioUrl == "blob:audio"

NewPrompts == {"charcoal close-up"}

Scripts == {"INT. ROOM - DAY Alice waves."}

\* generateContent's response for the analysis: its text is absent, empty,
\* JSON of a segment list, or not JSON.
ResponseText(kind, json) == [kind |-> kind, json |-> json]

JsonResponses(segments, maxScenes) ==
    {ResponseText("json", l) : l \in SegmentLists(segments, maxScenes)}

OddResponses ==
    {ResponseText("undefined", <<>>), ResponseText("empty", <<>>), ResponseText("malformed", <<>>)}

\* analyzeScript's last line: JSON.parse(response.text || "[]").
Returned(value) == [ok |-> TRUE, value |-> value, err |-> Thrown(FALSE, <<>>)]

Rejected(err) == [ok |-> FALSE, value |-> <<>>, err |-> err]

\* An analysis that answers text that is not JSON with the empty list.
analyzeScriptLenient(response) ==
    IF response.kind = "json" THEN Returned(response.json) ELSE Returned(<<>>)

analyzeScript(response) ==
    CASE response.kind \in {"undefined", "empty"} -> Returned(<<>>)
      [] response.kind = "json"                   -> Returned(response.json)
      [] OTHER -> Rejected(Thrown(TRUE, <<"Unexpected token in JSON">>))

\* generateStoryboardImage: the data URI of the first inline image part.
ImageResponses == {None, Some("AAA"), Some("BBB")}

DataUri(data) ==
    IF data = "AAA" THEN "data:image/png;base64,AAA" ELSE "data:image/png;base64,BBB"

generateStoryboardImage(response) ==
    IF response # None THEN Returned(DataUri(response[1]))
    ELSE Rejected(Thrown(TRUE, <<"No image data returned from Gemini">>))

\* generateDialogueSpeech: the blob of the audio payload, when there is one.
SpeechResponses == {None, Some("pcm")}

generateDialogueSpeech(response) ==
    IF response # None THEN Returned(AudioUrl)
    ELSE Rejected(Thrown(TRUE, <<"No audio data returned">>))

\* A video operation as generateVideos / getVideosOperation return it.
Operation(done, hasLink) == [done |-> done, hasLink |-> hasLink]

Operations == {Operation(FALSE, FALSE), Operation(TRUE, FALSE), Operation(TRUE, TRUE)}

\* ------------------------------------------------------------------- state

VARIABLES
    project,    \* useState<Project | null>
    loading,    \* useState<string | null>
    error,      \* useState<string | null>
    hasApiKey,  \* useState(false)
    keyCheck,   \* checkApiKey's await: "pending" or "done"
    handler,    \* the async handler suspended at an await, with its closure
    requests,   \* the provider requests in flight
    wav         \* the speech pipeline of generateDialogueSpeech

ctl == <<project, loading, error, hasApiKey, keyCheck, handler, requests>>

vars == <<project, loading, error, hasApiKey, keyCheck, handler, requests, wav>>

\* A loading text; n is the scene order the text carries (0 when it has none).
Loading(text, n) == [text |-> text, n |-> n]

\* A provider request in flight. `awaited` says that a handler still waits
\* for it; idx is the bulk loop's index (0 elsewhere).
Req(kind, idx, stage, prompt) ==
    [kind |-> kind, awaited |-> TRUE, idx |-> idx, stage |-> stage, prompt |-> prompt]

\* A request that still counts as awaited after its handler has ended.
AbandonedStillAwaited(r) == r

\* A request whose handler has ended: it stays in flight and nothing reads it.
Abandoned(r) ==
    [kind |-> "abandoned", awaited |-> FALSE, idx |-> 0, stage |-> "abandoned", prompt |-> ""]

Abandon(reqs) == {IF r.awaited THEN Abandoned(r) ELSE r : r \in reqs}

Awaited(kind) == {r \in requests : r.awaited /\ r.kind = kind}

Running(kind) == handler # None /\ handler[1].kind = kind

Scenes == IF project = None THEN <<>> ELSE project[1].scenes

SceneIds == {Scenes[k].id : k \in 1..Len(Scenes)}

\* The handler returns (its finally clause has run): loading is cleared and
\* whatever it no longer awaits stays in flight.
HandlerEnds(r) ==
    /\ loading' = None
    /\ handler' = None
    /\ requests' = Abandon(requests \ {r})

\* ------------------------------------------------- the speech pipeline


\* The speech pipeline's position: the provider's payload, the decoded PCM
\* bytes, the header and the blob's bytes.
WavIdle == [stage |-> "idle", binary |-> <<>>, pcmLength |-> 0,
            pcmBytes |-> <<>>, wavHeader |-> <<>>, blob |-> <<>>]

WavDecode ==
    /\ wav.stage = "response"
    /\ wav' = [wav EXCEPT !.stage = "decoded",
                          !.pcmBytes = decode(wav.binary),
                          !.pcmLength = Len(decode(wav.binary))]

WavHeader ==
    /\ wav.stage \in {"decoded", "length"}
    /\ wav' = [wav EXCEPT !.stage = IF wav.stage = "decoded" THEN "headed" ELSE "header_only",
                          !.wavHeader = createWavHeader(wav.pcmLength)]

WavBlobStep ==
    /\ wav.stage = "headed"
    /\ wav' = [wav EXCEPT !.stage = "done",
                          !.blob = WavBlob(wav.wavHeader, wav.pcmBytes)]

WavInit ==
  /\ project = None /\ loading = None /\ error = None /\ hasApiKey = FALSE
  /\ keyCheck = "pending" /\ handler = None /\ requests = {}
  /\
    \/ \E s \in BinaryStrings : wav = [WavIdle EXCEPT !.stage = "response", !.binary = s]
    \/ \E n \in LargeLengths : wav = [WavIdle EXCEPT !.stage = "length", !.pcmLength = n]

WavNext == (WavDecode \/ WavHeader \/ WavBlobStep) /\ UNCHANGED ctl

WavSpec == WavInit /\ [][WavNext]_vars

\* ------------------------------------------------------------- credentials

\* checkApiKey after its await: the flag is what hasSelectedApiKey answered
\* (false when it threw).
CheckApiKeySettles ==
    /\ keyCheck = "pending"
    /\ keyCheck' = "done"
    /\ \E selected \in BOOLEAN : hasApiKey' = selected
    /\ UNCHANGED <<project, loading, error, handler, requests, wav>>

\* handleOpenKeyPicker, offered on the no-key screen. The key dialog is
\* taken to close after the check made at mount has answered.
HandleOpenKeyPicker ==
    /\ ~hasApiKey
    /\ keyCheck = "done"
    /\ hasApiKey' = TRUE
    /\ UNCHANGED <<project, loading, error, keyCheck, handler, requests, wav>>

\* ------------------------------------------------------------ script submit

HandleScriptSubmit(script) ==
    /\ loading' = Some(Loading("Analyzing script and breaking into scenes...", 0))
    /\ handler' = Some([kind |-> "submit", script |-> script])
    /\ requests' = requests \cup {Req("analyze", 0, "generate", script)}
    /\ UNCHANGED <<project, error, hasApiKey, keyCheck, wav>>

\* handleScriptSubmit after `await api.analyzeScript(scriptInput)`.
ScriptSubmitResumes(r, outcome) ==
    /\ Running("submit")
    /\ r \in Awaited("analyze")
    /\ IF outcome.ok
       THEN /\ project' = Some(NewProject(handler[1].script, outcome.value))
            /\ error' = error
       ELSE /\ error' = Some(MessageOr(outcome.err, <<"Failed to analyze script">>))
            /\ project' = project
    /\ HandlerEnds(r)
    /\ UNCHANGED <<hasApiKey, keyCheck, wav>>

\* ------------------------------------------------------- single storyboard

HandleGenerateStoryboard(sceneId) ==
    IF project = None \/ FindScene(Scenes, sceneId) = 0
    THEN UNCHANGED vars
    ELSE /\ loading' = Some(Loading("Generating sketch storyboard...", 0))
         /\ handler' = Some([kind |-> "storyboard", sceneId |-> sceneId, project |-> project[1]])
         /\ requests' = requests \cup
                {Req("image", 0, "generate", PromptOf(Scenes[FindScene(Scenes, sceneId)]))}
         /\ UNCHANGED <<project, error, hasApiKey, keyCheck, wav>>

\* handleGenerateStoryboard after `await api.generateStoryboardImage(...)`:
\* the project it writes is the one its closure captured.
StoryboardResumes(r, outcome) ==
    /\ Running("storyboard")
    /\ r \in Awaited("image")
    /\ LET h == handler[1] IN
       IF outcome.ok
       THEN /\ project' = Some([h.project EXCEPT
                                  !.scenes = WithImage(h.project.scenes, h.sceneId, outcome.value)])
            /\ error' = error
       ELSE /\ error' = Some(MessageOr(outcome.err, <<"Storyboard generation failed">>))
            /\ project' = project
    /\ HandlerEnds(r)
    /\ UNCHANGED <<hasApiKey, keyCheck, wav>>

\* --------------------------------------------------------- bulk generation

BulkRequests(scenes, idxs) ==
    {Req("image", k, "generate", PromptOf(scenes[k])) : k \in idxs}

BulkLoading(scenes, idxs) ==
    Some(Loading("Generating sketch for Scene", scenes[CHOOSE k \in idxs : TRUE].order))

\* handleGenerateAllStoryboards up to its first await; with nothing to
\* generate it sets and clears the loading text in one go.
HandleGenerateAllStoryboards ==
    IF project = None \/ BulkIssue(Scenes, 1) = {}
    THEN UNCHANGED vars
    ELSE /\ loading' = BulkLoading(Scenes, BulkIssue(Scenes, 1))
         /\ handler' = Some([kind |-> "bulk", updatedScenes |-> Scenes, project |-> project[1]])
         /\ requests' = requests \cup BulkRequests(Scenes, BulkIssue(Scenes, 1))
         /\ UNCHANGED <<project, error, hasApiKey, keyCheck, wav>>

\* A bulk run whose catch clause puts back the project it started from.
BulkResumesRollback(r, outcome) ==
    /\ Running("bulk")
    /\ r \in Awaited("image")
    /\ LET h       == handler[1]
           updated == [h.updatedScenes EXCEPT ![r.idx].storyboardImageUrl = outcome.value]
           next    == BulkIssue(updated, r.idx + 1)
       IN
       IF outcome.ok
       THEN /\ project' = IF project = None THEN None
                          ELSE Some([project[1] EXCEPT !.scenes = updated])
            /\ error' = error
            /\ IF next = {}
               THEN HandlerEnds(r)
               ELSE /\ loading' = BulkLoading(updated, next)
                    /\ handler' = Some([h EXCEPT !.updatedScenes = updated])
                    /\ requests' = (requests \ {r}) \cup BulkRequests(updated, next)
       ELSE /\ error' = Some(MessageOr(outcome.err, <<"Bulk generation failed">>))
            /\ project' = IF project = None THEN None ELSE Some(h.project)
            /\ HandlerEnds(r)
    /\ UNCHANGED <<hasApiKey, keyCheck, wav>>

\* handleGenerateAllStoryboards after the await for scene r.idx: the commit
\* setProject(prev => prev ? {...prev, scenes: [...updatedScenes]} : null),
\* then the loop up to its next await or its end.
BulkResumes(r, outcome) ==
    /\ Running("bulk")
    /\ r \in Awaited("image")
    /\ LET h       == handler[1]
           updated == [h.updatedScenes EXCEPT ![r.idx].storyboardImageUrl = outcome.value]
           next    == BulkIssue(updated, r.idx + 1)
       IN
       IF outcome.ok
       THEN /\ project' = IF project = None THEN None
                          ELSE Some([project[1] EXCEPT !.scenes = updated])
            /\ error' = error
            /\ IF next = {}
               THEN HandlerEnds(r)
               ELSE /\ loading' = BulkLoading(updated, next)
                    /\ handler' = Some([h EXCEPT !.updatedScenes = updated])
                    /\ requests' = (requests \ {r}) \cup BulkRequests(updated, next)
       ELSE /\ error' = Some(MessageOr(outcome.err, <<"Bulk generation failed">>))
            /\ project' = project
            /\ HandlerEnds(r)
    /\ UNCHANGED <<hasApiKey, keyCheck, wav>>

\* ------------------------------------------------------ final-video production

\* A guard that only looks the scene up, without asking for its image.
FinalVideoReturnsEarlyNoImageTest(proj, sceneId) ==
    \/ proj = None
    \/ FindScene(proj[1].scenes, sceneId) = 0

\* The two early returns of handleGenerateFinalVideo.
FinalVideoReturnsEarly(proj, sceneId) ==
    \/ proj = None
    \/ FindScene(proj[1].scenes, sceneId) = 0
    \/ Falsy(proj[1].scenes[FindScene(proj[1].scenes, sceneId)].storyboardImageUrl)

\* handleGenerateFinalVideo up to `await Promise.all([...])`: both requests start.
HandleGenerateFinalVideo(sceneId) ==
    IF FinalVideoReturnsEarly(project, sceneId)
    THEN UNCHANGED vars
    ELSE LET scene == Scenes[FindScene(Scenes, sceneId)] IN
         /\ loading' = Some(Loading("Animating scene", scene.order))
         /\ handler' = Some([kind |-> "final", sceneId |-> sceneId, project |-> project[1],
                             videoUrl |-> UNDEF, audioUrl |-> UNDEF])
         /\ requests' = requests \cup {Req("video", 0, "generate", PromptOf(scene)),
                                       Req("speech", 0, "generate", scene.dialogue)}
         /\ UNCHANGED <<project, error, hasApiKey, keyCheck, wav>>

\* A catch clause that reports the missing entity like any other failure.
FinalVideoCatchPlain(err, flag, message) ==
    IF ~err.hasMessage
    THEN [hasApiKey |-> flag, error |-> message]
    ELSE [hasApiKey |-> flag, error |-> Some(MessageOr(err, <<"Animation generation failed">>))]

\* The catch clause of handleGenerateFinalVideo: the has-credentials flag and
\* the error message it leaves. err.message.includes(...) throws a TypeError
\* when err has no message, and then neither setter runs.
FinalVideoCatch(err, flag, message) ==
    IF ~err.hasMessage
    THEN [hasApiKey |-> flag, error |-> message]
    ELSE IF Includes(err.message, NotFoundText)
    THEN [hasApiKey |-> FALSE,
          error |-> Some(<<"API Session expired. Please re-select your key.">>)]
    ELSE [hasApiKey |-> flag, error |-> Some(MessageOr(err, <<"Animation generation failed">>))]

\* handleGenerateFinalVideo when one promise of Promise.all settles: a
\* rejection runs catch and finally at once; a result is kept until the other
\* promise has one too, and then both are committed to the captured project.
FinalVideoResumes(r, outcome) ==
    /\ Running("final")
    /\ r.awaited /\ r \in requests /\ r.kind \in {"video", "speech"}
    /\ LET h  == handler[1]
           h2 == IF r.kind = "video" THEN [h EXCEPT !.videoUrl = outcome.value]
                                     ELSE [h EXCEPT !.audioUrl = outcome.value]
       IN
       IF ~outcome.ok
       THEN /\ hasApiKey' = FinalVideoCatch(outcome.err, hasApiKey, error).hasApiKey
            /\ error' = FinalVideoCatch(outcome.err, hasApiKey, error).error
            /\ project' = project
            /\ HandlerEnds(r)
       ELSE IF h2.videoUrl # UNDEF /\ h2.audioUrl # UNDEF
       THEN /\ project' = Some([h.project EXCEPT
                                  !.scenes = WithVideoAudio(h.project.scenes, h.sceneId,
                                                            h2.videoUrl, h2.audioUrl)])
            /\ HandlerEnds(r)
            /\ UNCHANGED <<error, hasApiKey>>
       ELSE /\ handler' = Some(h2)
            /\ requests' = requests \ {r}
            /\ UNCHANGED <<project, loading, error, hasApiKey>>
    /\ UNCHANGED <<keyCheck, wav>>

\* generateSceneVideo while its operation is not done: generateVideos or
\* getVideosOperation answered "not done" and the loop waits again.
VideoKeepsPolling(r) ==
    /\ r \in Awaited("video")
    /\ r.stage \in {"generate", "poll"}
    /\ requests' = (requests \ {r}) \cup {[r EXCEPT !.stage = "poll"]}
    /\ UNCHANGED <<project, loading, error, hasApiKey, keyCheck, handler, wav>>

\* An operation that never reports done: asked again, it is still running.
VideoOperationNeverDone(r) ==
    /\ r \in Awaited("video")
    /\ r.stage \in {"generate", "poll"}
    /\ requests' = (requests \ {r}) \cup {[r EXCEPT !.stage = "poll"]}
    /\ UNCHANGED <<project, loading, error, hasApiKey, keyCheck, handler, wav>>

\* The operation reports done with a download link: the fetch starts.
VideoOperationDone(r) ==
    /\ r \in Awaited("video")
    /\ r.stage \in {"generate", "poll"}
    /\ requests' = (requests \ {r}) \cup {[r EXCEPT !.stage = "fetch"]}
    /\ UNCHANGED <<project, loading, error, hasApiKey, keyCheck, handler, wav>>

\* The operation reports done without a download link: generateSceneVideo throws.
VideoNoLink(r) ==
    /\ r.kind = "video" /\ r.stage \in {"generate", "poll"}
    /\ FinalVideoResumes(r, Rejected(Thrown(TRUE, <<"Video generation failed: no download link">>)))

\* The download ends: generateSceneVideo returns the blob's URL.
VideoFetched(r) ==
    /\ r.kind = "video" /\ r.stage = "fetch"
    /\ FinalVideoResumes(r, Returned(VideoUrl))

\* A request of generateSceneVideo (start, poll or download) throws.
VideoFails(r, err) ==
    /\ r.kind = "video"
    /\ FinalVideoResumes(r, Rejected(err))

\* The speech request answers, with or without audio data.
SpeechAnswers(r, response) ==
    /\ r.kind = "speech"
    /\ FinalVideoResumes(r, generateDialogueSpeech(response))

SpeechFails(r, err) ==
    /\ r.kind = "speech"
    /\ FinalVideoResumes(r, Rejected(err))

\* A request nobody awaits any more settles; no state of the App changes.
AbandonedSettles(r) ==
    /\ r \in requests /\ ~r.awaited
    /\ requests' = requests \ {r}
    /\ UNCHANGED <<project, loading, error, hasApiKey, keyCheck, handler, wav>>

\* ---------------------------------------------------- synchronous handlers

HandleApproveScene(sceneId) ==
    IF project = None THEN UNCHANGED vars
    ELSE /\ project' = Some([project[1] EXCEPT !.scenes = ApproveScenes(Scenes, sceneId)])
         /\ UNCHANGED <<loading, error, hasApiKey, keyCheck, handler, requests, wav>>

HandleUpdatePrompt(sceneId, newPrompt) ==
    IF project = None THEN UNCHANGED vars
    ELSE /\ project' = Some([project[1] EXCEPT
                               !.scenes = UpdatePromptScenes(Scenes, sceneId, newPrompt)])
         /\ UNCHANGED <<loading, error, hasApiKey, keyCheck, handler, requests, wav>>

\* The Reset Project button: setProject(null).
ResetProject ==
    /\ project' = None
    /\ UNCHANGED <<loading, error, hasApiKey, keyCheck, handler, requests, wav>>

\* The error toast's Dismiss button: setError(null).
DismissError ==
    /\ error' = None
    /\ UNCHANGED <<project, loading, hasApiKey, keyCheck, handler, requests, wav>>

\* ------------------------------------------------------------ what is offered

\* A main screen that is rendered whether or not a key was selected.
MainScreenAlways == TRUE

\* The main screen is rendered only with hasApiKey; the project view only
\* with a project; the generation buttons are disabled while loading is set.
MainScreen == hasApiKey

ProjectView == MainScreen /\ project # None

Idle == loading = None /\ handler = None

\* Produce Animation is rendered for approved scenes that have an image.
AnimationOffered(sceneId) ==
    /\ sceneId \in SceneIds
    /\ Scenes[FindScene(Scenes, sceneId)].isApproved
    /\ ~Falsy(Scenes[FindScene(Scenes, sceneId)].storyboardImageUrl)

SubmitScript ==
    /\ MainScreen /\ project = None /\ Idle
    /\ \E script \in Scripts : HandleScriptSubmit(script)

AnalysisAnswers(env) ==
    \E r \in requests, response \in env.analyses :
        ScriptSubmitResumes(r, analyzeScript(response))

AnalysisFails(env) ==
    \E r \in requests, err \in env.errors : ScriptSubmitResumes(r, Rejected(err))

SketchScene ==
    /\ ProjectView /\ Idle
    /\ \E sceneId \in SceneIds : HandleGenerateStoryboard(sceneId)

StoryboardAnswers(env) ==
    \E r \in requests, response \in env.images :
        StoryboardResumes(r, generateStoryboardImage(response))

StoryboardFails(env) ==
    \E r \in requests, err \in env.errors : StoryboardResumes(r, Rejected(err))

GenerateAllSketches ==
    /\ ProjectView /\ Idle
    /\ HandleGenerateAllStoryboards

BulkAnswers(env) ==
    \E r \in requests, response \in env.images :
        BulkResumes(r, generateStoryboardImage(response))

BulkFails(env) ==
    \E r \in requests, err \in env.errors : BulkResumes(r, Rejected(err))

ProduceAnimation ==
    /\ ProjectView /\ Idle
    /\ \E sceneId \in SceneIds : AnimationOffered(sceneId) /\ HandleGenerateFinalVideo(sceneId)

VideoPolls == \E r \in requests : VideoKeepsPolling(r)

VideoReady == \E r \in requests : VideoOperationDone(r)

VideoDownloads == \E r \in requests : VideoFetched(r)

VideoThrows(env) ==
    \E r \in requests :
        \/ \E err \in env.errors : VideoFails(r, err)
        \/ FALSE \in env.links /\ VideoNoLink(r)

SpeechEnds(env) ==
    \E r \in requests, response \in env.speech : SpeechAnswers(r, response)

SpeechThrows(env) == \E r \in requests, err \in env.errors : SpeechFails(r, err)

AbandonedEnds == \E r \in requests : AbandonedSettles(r)

ApproveScene == ProjectView /\ \E sceneId \in SceneIds : HandleApproveScene(sceneId)

EditPrompt ==
    ProjectView /\ \E sceneId \in SceneIds, newPrompt \in NewPrompts :
        HandleUpdatePrompt(sceneId, newPrompt)

Reset == ProjectView /\ ResetProject

Dismiss == MainScreen /\ error # None /\ DismissError

\* A handler called outside the rendered buttons, with any identifier.
CallGenerateFinalVideo ==
    /\ handler = None
    /\ \E sceneId \in UUIDs \cup {0} : HandleGenerateFinalVideo(sceneId)

Init ==
    /\ project = None
    /\ loading = None
    /\ error = None
    /\ hasApiKey = FALSE
    /\ keyCheck = "pending"
    /\ handler = None
    /\ requests = {}
    /\ wav = WavIdle

\* What the provider is taken to answer: the errors its calls throw, the
\* analysis responses, the image and speech responses (None: the expected
\* part is missing) and whether a finished video operation carries a link.
Env(errors, analyses, images, speech, links) ==
    [errors |-> errors, analyses |-> analyses, images |-> images,
     speech |-> speech, links |-> links]

NextOf(env) ==
    \/ CheckApiKeySettles
    \/ HandleOpenKeyPicker
    \/ SubmitScript
    \/ AnalysisAnswers(env)
    \/ AnalysisFails(env)
    \/ SketchScene
    \/ StoryboardAnswers(env)
    \/ StoryboardFails(env)
    \/ GenerateAllSketches
    \/ BulkAnswers(env)
    \/ BulkFails(env)
    \/ ProduceAnimation
    \/ VideoPolls
    \/ VideoReady
    \/ VideoDownloads
    \/ VideoThrows(env)
    \/ SpeechEnds(env)
    \/ SpeechThrows(env)
    \/ AbandonedEnds
    \/ ApproveScene
    \/ EditPrompt
    \/ Reset
    \/ Dismiss

\* Batches of up to MaxScenes scenes, two different images; a failing
\* provider call throws an Error with a message.
SceneEnv ==
    Env(PlainErrors,
        JsonResponses({Segment(None, "Alice waves.", "Hello")}, MaxScenes),
        {Some("AAA"), Some("BBB")}, {Some("pcm")}, {TRUE})

Next == NextOf(SceneEnv)

Spec == Init /\ [][Next]_vars

\* The same program with handleGenerateFinalVideo also callable directly.
CallNext == Next \/ CallGenerateFinalVideo

CallSpec == Init /\ [][CallNext]_vars

\* Every kind of provider failure and of response, on batches of up to
\* MaxFaultScenes scenes.
FaultEnv ==
    Env(ProviderErrors,
        OddResponses \cup JsonResponses({Segment(None, "Alice waves.", "Hello")}, MaxFaultScenes),
        {None, Some("AAA")}, SpeechResponses, BOOLEAN)

FaultNext == NextOf(FaultEnv)

FaultSpec == Init /\ [][FaultNext]_vars

\* The provider under the assumptions that every call returns or fails
\* (ProviderReturns) and that a video operation that is asked again and again
\* reports done (VideoReady). A poll that is answered "not done" is a call
\* that returned; nothing bounds how often that happens.
ProviderReturns ==
    \/ AnalysisAnswers(FaultEnv) \/ AnalysisFails(FaultEnv)
    \/ StoryboardAnswers(FaultEnv) \/ StoryboardFails(FaultEnv)
    \/ BulkAnswers(FaultEnv) \/ BulkFails(FaultEnv)
    \/ SpeechEnds(FaultEnv) \/ SpeechThrows(FaultEnv)
    \/ VideoDownloads

LiveSpec ==
    /\ Init /\ [][FaultNext]_vars
    /\ WF_vars(ProviderReturns)
    /\ WF_vars(VideoReady)

\* The script form alone: every kind of analysis response and failure, with
\* segment lists that mix given and missing order values; of the project
\* view only the approval, the prompt edit and the reset are used.
AnalysisEnv ==
    Env(ProviderErrors, OddResponses \cup JsonResponses(Segments, MaxScenes),
        {}, {}, {})

AnalysisNext ==
    \/ CheckApiKeySettles
    \/ HandleOpenKeyPicker
    \/ SubmitScript
    \/ AnalysisAnswers(AnalysisEnv)
    \/ AnalysisFails(AnalysisEnv)
    \/ ApproveScene
    \/ EditPrompt
    \/ Reset
    \/ Dismiss

AnalysisSpec == Init /\ [][AnalysisNext]_vars

\* ------------------------------------------------------------------ claims

\* The n bytes of v, least significant first, and a slice of a byte
\* sequence (offsets from 0).
LEBytes(v, n) == [k \in 1..n |-> (v \div (256 ^ (k - 1))) % 256]

Slice(bytes, off, n) == [k \in 1..n |-> bytes[off + k]]

HeaderOk(h, L) ==
    /\ Len(h) = 44
    /\ Slice(h, 0, 4) = <<82, 73, 70, 70>>
    /\ Slice(h, 8, 4) = <<87, 65, 86, 69>>
    /\ Slice(h, 22, 2) = LEBytes(1, 2)
    /\ Slice(h, 24, 4) = LEBytes(24000, 4)
    /\ Slice(h, 34, 2) = LEBytes(16, 2)
    /\ Slice(h, 40, 4) = LEBytes(L, 4)

\* C1: the audio is exactly 44 + L bytes: a 44-byte header carrying "RIFF",
\* "WAVE", one channel, 24000 Hz, 16 bits per sample and the data size L,
\* followed by the L PCM bytes unchanged.
C1_WavLayout ==
    /\ wav.stage \in {"headed", "header_only", "done"} => HeaderOk(wav.wavHeader, wav.pcmLength)
    /\ wav.stage = "done" =>
        /\ Len(wav.blob) = 44 + Len(wav.pcmBytes)
        /\ HeaderOk(Slice(wav.blob, 0, 44), Len(wav.pcmBytes))
        /\ Slice(wav.blob, 44, Len(wav.pcmBytes)) = wav.pcmBytes

\* A finished blob of a payload whose first byte is 255.
C1_Witness ==
    wav.stage = "done" /\ Len(wav.pcmBytes) >= 3 /\ wav.pcmBytes[1] = 255

\* C2: a bulk run asks no image for a scene that has one, and such a scene's
\* image reference is the same during and after the run as at its start (the
\* run's start is the project the handler captured).
BulkSnapshot == handler[1].project.scenes

BulkKeepsImages ==
    Running("bulk") =>
        /\ \A r \in Awaited("image") :
              /\ Falsy(BulkSnapshot[r.idx].storyboardImageUrl)
              /\ project # None => Falsy(Scenes[r.idx].storyboardImageUrl)
        /\ \A k \in 1..Len(BulkSnapshot) :
              ~Falsy(BulkSnapshot[k].storyboardImageUrl) =>
                  /\ handler[1].updatedScenes[k].storyboardImageUrl
                        = BulkSnapshot[k].storyboardImageUrl
                  /\ project # None =>
                        Scenes[k].storyboardImageUrl = BulkSnapshot[k].storyboardImageUrl

BulkStepKeepsImages ==
    (Running("bulk") /\ project' # None) =>
        \A k \in 1..Len(BulkSnapshot) :
            ~Falsy(BulkSnapshot[k].storyboardImageUrl) =>
                project'[1].scenes[k].storyboardImageUrl = BulkSnapshot[k].storyboardImageUrl

C2_BulkSkipsScenesWithImage == []BulkKeepsImages /\ [][BulkStepKeepsImages]_vars

\* The run skipped scene 1, which had an image, and asks one for scene 2.
C2_Witness ==
    /\ Running("bulk")
    /\ ~Falsy(BulkSnapshot[1].storyboardImageUrl)
    /\ \E r \in Awaited("image") : r.idx = 2

\* C3: approving a scene twice in a row gives back the project as it was;
\* one approval changes the isApproved flag of that scene alone, and issues
\* no provider call.
ApprovalStep(sceneId) == project # None /\ HandleApproveScene(sceneId)

C3_ApproveTwiceIsIdentity ==
    [][\A sceneId \in SceneIds :
          ApprovalStep(sceneId) =>
              /\ requests' = requests /\ loading' = loading /\ handler' = handler
              /\ project' # None
              /\ Len(project'[1].scenes) = Len(Scenes)
              /\ \A k \in 1..Len(Scenes) :
                    /\ project'[1].scenes[k].isApproved =
                          (IF Scenes[k].id = sceneId THEN ~Scenes[k].isApproved
                                                     ELSE Scenes[k].isApproved)
                    /\ [project'[1].scenes[k] EXCEPT !.isApproved = Scenes[k].isApproved]
                          = Scenes[k]
              /\ [project'[1] EXCEPT !.scenes = ApproveScenes(project'[1].scenes, sceneId)]
                    = project[1]]_vars

C3_Witness ==
    /\ Len(Scenes) = 2
    /\ Scenes[1].isApproved /\ ~Scenes[2].isApproved
    /\ ~Falsy(Scenes[1].storyboardImageUrl)

\* C4: a prompt edit changes the storyboardPrompt of the scene with that id
\* and nothing else: no other field of it, no field of another scene, no
\* provider call.
PromptStep(sceneId, newPrompt) == project # None /\ HandleUpdatePrompt(sceneId, newPrompt)

C4_PromptEditFrame ==
    [][\A sceneId \in SceneIds, newPrompt \in NewPrompts :
          PromptStep(sceneId, newPrompt) =>
              /\ requests' = requests /\ loading' = loading /\ handler' = handler
              /\ error' = error /\ hasApiKey' = hasApiKey
              /\ project' # None
              /\ project'[1].title = project[1].title
              /\ project'[1].script = project[1].script
              /\ Len(project'[1].scenes) = Len(Scenes)
              /\ \A k \in 1..Len(Scenes) :
                    LET old == Scenes[k]
                        new == project'[1].scenes[k]
                    IN  /\ new.id = old.id /\ new.order = old.order
                        /\ new.description = old.description
                        /\ new.dialogue = old.dialogue
                        /\ new.isApproved = old.isApproved
                        /\ new.storyboardImageUrl = old.storyboardImageUrl
                        /\ new.videoUrl = old.videoUrl
                        /\ new.audioUrl = old.audioUrl
                        /\ new.storyboardPrompt =
                              (IF old.id = sceneId THEN newPrompt ELSE old.storyboardPrompt)]_vars

C4_Witness ==
    /\ Len(Scenes) = 2
    /\ Scenes[1].storyboardPrompt = Scenes[1].description
    /\ Scenes[2].storyboardPrompt = "charcoal close-up"
    /\ Scenes[2].videoUrl # UNDEF

\* C5: handleGenerateFinalVideo called for an id that matches no scene, or
\* for a scene without a storyboard image, changes nothing: no request, no
\* loading text, the project, the error and the has-credentials flag as before.
NoFinalVideoCase(sceneId) ==
    /\ project # None
    /\ \/ sceneId \notin SceneIds
       \/ \E k \in 1..Len(Scenes) :
            Scenes[k].id = sceneId /\ Scenes[k].storyboardImageUrl = UNDEF

C5_FinalVideoNoOp ==
    [][\A sceneId \in UUIDs \cup {0} :
          (handler = None /\ NoFinalVideoCase(sceneId) /\ HandleGenerateFinalVideo(sceneId)) =>
              /\ requests' = requests /\ loading' = loading
              /\ project' = project /\ error' = error /\ hasApiKey' = hasApiKey]_vars

\* An approved scene without an image, and nothing running: the call returns early.
C5_Witness ==
    /\ handler = None /\ loading = None
    /\ Len(Scenes) = 2
    /\ Scenes[1].isApproved /\ Scenes[1].storyboardImageUrl = UNDEF
    /\ Scenes[2].storyboardImageUrl # UNDEF

\* C6: a final-video failure whose message contains "Requested entity was
\* not found" leaves hasApiKey false; whatever the script-submit, storyboard
\* and bulk handlers do on a failure, they leave the flag as it was.
NotFoundFailure ==
    \E r \in requests, err \in ProviderErrors :
        /\ err.hasMessage /\ Includes(err.message, NotFoundText)
        /\ FinalVideoResumes(r, Rejected(err))

OtherHandlerFailure ==
    \E r \in requests, err \in ProviderErrors \cup
            {Thrown(TRUE, <<"No image data returned from Gemini">>),
             Thrown(TRUE, <<"Unexpected token in JSON">>)} :
        \/ ScriptSubmitResumes(r, Rejected(err))
        \/ StoryboardResumes(r, Rejected(err))
        \/ BulkResumes(r, Rejected(err))

C6_NotFoundClearsKeyFlag ==
    [][/\ NotFoundFailure => ~hasApiKey'
       /\ OtherHandlerFailure => hasApiKey' = hasApiKey]_vars

C6_Witness ==
    /\ ~hasApiKey /\ keyCheck = "done" /\ project # None /\ handler = None
    /\ error = Some(<<"API Session expired. Please re-select your key.">>)

\* C7: the identifiers of the project's scenes are pairwise distinct.
C7_SceneIdsDistinct ==
    \A i, j \in 1..Len(Scenes) : i # j => Scenes[i].id # Scenes[j].id

C7_Witness ==
    /\ Len(Scenes) = 2
    /\ Scenes[1].videoUrl # UNDEF
    /\ Scenes[2].storyboardPrompt # Scenes[2].description

\* C8: whenever a provider call of one of the four actions fails, with any
\* kind of thrown value, the action ends with the error message set and the
\* loading text cleared.
AnyFailure ==
    \E r \in requests, err \in ProviderErrors :
        \/ ScriptSubmitResumes(r, Rejected(err))
        \/ StoryboardResumes(r, Rejected(err))
        \/ BulkResumes(r, Rejected(err))
        \/ FinalVideoResumes(r, Rejected(err))

C8_FailureSetsError ==
    [][AnyFailure => (error' # None /\ loading' = None)]_vars

\* C9: a scene has a video reference exactly when it has an audio reference,
\* and a failing video or speech request leaves the project as it was.
VideoIffAudio ==
    \A k \in 1..Len(Scenes) : (Scenes[k].videoUrl = UNDEF) <=> (Scenes[k].audioUrl = UNDEF)

FinalVideoFailure ==
    \E r \in requests, err \in ProviderErrors \cup
            {Thrown(TRUE, <<"Video generation failed: no download link">>),
             Thrown(TRUE, <<"No audio data returned">>)} :
        FinalVideoResumes(r, Rejected(err))

C9_VideoAndAudioTogether ==
    []VideoIffAudio /\ [][FinalVideoFailure => project' = project]_vars

\* A scene that has both, and a later production of it that failed.
C9_Witness ==
    /\ Len(Scenes) = 1
    /\ Scenes[1].videoUrl = VideoUrl /\ Scenes[1].audioUrl = AudioUrl
    /\ error = Some(<<"No audio data returned">>)

\* C10: a bulk run has at most one image request in flight, and the scene it
\* asks for comes after scenes that all have their image, in the run's own
\* list and in the project.
C10_BulkOneAtATime ==
    Running("bulk") =>
        /\ Cardinality(Awaited("image")) <= 1
        /\ \A r \in Awaited("image") : \A j \in 1..(r.idx - 1) :
              /\ ~Falsy(handler[1].updatedScenes[j].storyboardImageUrl)
              /\ project # None =>
                    Scenes[j].storyboardImageUrl = handler[1].updatedScenes[j].storyboardImageUrl

\* The run generated scene 1's image, committed it, and now asks for scene 2's.
C10_Witness ==
    /\ Running("bulk")
    /\ Falsy(BulkSnapshot[1].storyboardImageUrl)
    /\ project # None /\ ~Falsy(Scenes[1].storyboardImageUrl)
    /\ \E r \in Awaited("image") : r.idx = 2

\* At most one handler is suspended, and exactly then the loading text is set.
LoadingIffHandler == (loading # None) <=> (handler # None)

\* C12: a successful analysis of N segments turns the absent project into
\* one of exactly N scenes, in the provider's order, each with the segment's
\* description and dialogue, the description as visual prompt, not approved
\* and without image, video or audio; a failed analysis leaves it absent.
SceneOfSegment(scene, segment) ==
    /\ scene.description = segment.description
    /\ scene.dialogue = segment.dialogue
    /\ scene.storyboardPrompt = segment.description
    /\ scene.isApproved = FALSE
    /\ scene.storyboardImageUrl = UNDEF
    /\ scene.videoUrl = UNDEF
    /\ scene.audioUrl = UNDEF

C12_AnalysisBuildsProject ==
    [][/\ \A r \in requests, response \in AnalysisEnv.analyses :
            ScriptSubmitResumes(r, analyzeScript(response)) =>
                IF analyzeScript(response).ok
                THEN LET sceneData == analyzeScript(response).value IN
                     /\ project = None /\ project' # None
                     /\ Len(project'[1].scenes) = Len(sceneData)
                     /\ \A k \in 1..Len(sceneData) :
                           SceneOfSegment(project'[1].scenes[k], sceneData[k])
                ELSE project = None /\ project' = None
       /\ \A r \in requests, err \in AnalysisEnv.errors :
            ScriptSubmitResumes(r, Rejected(err)) => (project = None /\ project' = None)]_vars

\* A project of two different scenes in the provider's order, untouched.
C12_Witness ==
    /\ Len(Scenes) = 2
    /\ Scenes[1].description = "A door opens." /\ Scenes[2].description = "Alice waves."
    /\ Scenes[1].storyboardPrompt = "A door opens." /\ Scenes[2].dialogue = "Hello"
    /\ ~Scenes[1].isApproved /\ ~Scenes[2].isApproved

\* C15 as stated: a response text that is not JSON makes analyzeScript
\* return the empty list, and the script submit ends with a project of no
\* scenes and without setting the error.
MalformedText == ResponseText("malformed", <<>>)

C15_MalformedFallsBack ==
    [][\A r \in requests :
          ScriptSubmitResumes(r, analyzeScript(MalformedText)) =>
              /\ analyzeScript(MalformedText) = Returned(<<>>)
              /\ project' # None /\ Len(project'[1].scenes) = 0
              /\ error' = error]_vars

\* C15 as amended: an absent or empty response text makes analyzeScript
\* return the empty list, and the submit ends with a project of no scenes and
\* the error as it was; a text that is not JSON makes analyzeScript throw, and
\* the submit ends with the parse error's message as error and no project.
C15_AbsentTextFallsBack ==
    [][\A r \in requests :
          /\ \A response \in {ResponseText("undefined", <<>>), ResponseText("empty", <<>>)} :
                ScriptSubmitResumes(r, analyzeScript(response)) =>
                    /\ analyzeScript(response) = Returned(<<>>)
                    /\ project' # None /\ Len(project'[1].scenes) = 0
                    /\ error' = error /\ loading' = None
          /\ ScriptSubmitResumes(r, analyzeScript(MalformedText)) =>
                /\ ~analyzeScript(MalformedText).ok
                /\ project' = None
                /\ error' = Some(<<"Unexpected token in JSON">>) /\ loading' = None]_vars

\* The submit that met a text that is not JSON has ended.
C15_Witness ==
    /\ project = None /\ loading = None /\ handler = None
    /\ error = Some(<<"Unexpected token in JSON">>)

\* C16: the scene at position idx has the order the provider returned for
\* its segment whenever it returned one, 0 included, and idx + 1 otherwise.
C16_OrderFromProvider ==
    [][\A r \in requests, response \in JsonResponses(Segments, MaxScenes) :
          ScriptSubmitResumes(r, analyzeScript(response)) =>
              /\ project' # None
              /\ \A k \in 1..Len(response.json) :
                    project'[1].scenes[k].order =
                        (IF response.json[k].order # None THEN response.json[k].order[1]
                                                          ELSE k)]_vars

\* C11: when a request of a bulk run fails, the run ends there: the project is
\* left as it is, with the image of every scene the run generated before, and
\* no image request of the run is in flight afterwards.
BulkFailure ==
    \E r \in requests, err \in SceneEnv.errors : BulkResumes(r, Rejected(err))

C11_BulkKeepsPartialProgress ==
    [][BulkFailure =>
          /\ project' = project
          /\ handler' = None /\ loading' = None
          /\ \A r \in requests' : r.kind # "image"
          /\ project' # None =>
                \A j \in 1..Len(BulkSnapshot) :
                    ~Falsy(handler[1].updatedScenes[j].storyboardImageUrl) =>
                        project'[1].scenes[j].storyboardImageUrl
                            = handler[1].updatedScenes[j].storyboardImageUrl]_vars

\* A failure met at the second scene: the first has its image, the second none.
C11_Witness ==
    /\ handler = None /\ loading = None
    /\ error = Some(<<"quota exceeded">>)
    /\ Len(Scenes) = 2
    /\ ~Falsy(Scenes[1].storyboardImageUrl) /\ Falsy(Scenes[2].storyboardImageUrl)
    /\ ~Scenes[1].isApproved /\ ~Scenes[2].isApproved

\* C13: while the loading text is set, no action of the user (approval,
\* prompt edit, reset, script submit, single storyboard, bulk generation,
\* final video) changes the project or starts a provider call.
UserAction ==
    \/ ApproveScene
    \/ EditPrompt
    \/ Reset
    \/ SubmitScript
    \/ SketchScene
    \/ GenerateAllSketches
    \/ ProduceAnimation

C13_LoadingExcludesUserActions ==
    [][(loading # None /\ UserAction) =>
          (project' = project /\ requests' \subseteq requests)]_vars

\* What does hold: while the loading text is set, no action of the user
\* starts a provider call or another handler.
LoadingExcludesGeneration ==
    [][(loading # None /\ UserAction) =>
          (requests' = requests /\ handler' = handler /\ loading' = loading)]_vars

\* C14: while hasApiKey is false no generation request starts, no handler
\* starts and the project stays as it is; once cleared, the flag becomes true
\* again through handleOpenKeyPicker only, and clearing and restoring it
\* leave the project as it was.
GenerationStarts ==
    \E r \in requests' \ requests : r.awaited /\ r.stage = "generate"

LoadingWhileVideoAwaited == Awaited("video") # {} => loading # None

C17_LoadingEventuallyCleared ==
    /\ (loading # None) ~> (loading = None)
    /\ []LoadingWhileVideoAwaited

\* The video operation is being polled, the speech request has answered.
C17_Witness ==
    /\ Running("final") /\ loading # None
    /\ handler[1].audioUrl # UNDEF
    /\ \E r \in Awaited("video") : r.stage = "poll"

\* C18 as stated: whenever a request is in flight, the loading text is set.
C18_RequestImpliesLoading == requests # {} => loading # None

\* C18 as amended: whenever a request that a handler awaits is in flight, the
\* loading text is set; when one request of final-video production fails
\* while the other is in flight, the loading text is cleared at once and the
\* other request stays in flight with no handler awaiting it.
AwaitedImpliesLoading == (\E r \in requests : r.awaited) => loading # None

FailureLeavesOther ==
    \A r \in requests, err \in FaultEnv.errors :
        (FinalVideoResumes(r, Rejected(err)) /\ Cardinality(requests) >= 2
            /\ \A q \in requests : q.awaited) =>
                /\ loading' = None /\ handler' = None
                /\ Cardinality(requests') = Cardinality(requests) - 1
                /\ \A q \in requests' : ~q.awaited

C18_AwaitedImpliesLoading == []AwaitedImpliesLoading /\ [][FailureLeavesOther]_vars

\* The speech request failed while the video request was in flight: the
\* loading text is cleared and the video request is still there.
C18_Witness ==
    /\ loading = None /\ handler = None
    /\ error = Some(<<"No audio data returned">>)
    /\ \E r \in requests : ~r.awaited

\* C19: a commit of a single storyboard generation or of a final-video
\* production changes only the media references of its scene: the approval
\* flag and the visual prompt of every scene are after the commit what they
\* were right before it, so no edit made since the request started is lost.
MediaCommit ==
    \/ \E r \in requests, response \in SceneEnv.images :
          /\ generateStoryboardImage(response).ok
          /\ StoryboardResumes(r, generateStoryboardImage(response))
    \/ \E r \in requests :
          /\ handler' = None
          /\ \/ VideoFetched(r)
             \/ \E response \in SceneEnv.speech :
                   generateDialogueSpeech(response).ok /\ SpeechAnswers(r, response)

C19_CommitKeepsEdits ==
    [][(MediaCommit /\ project # None) =>
          /\ project' # None
          /\ Len(project'[1].scenes) = Len(Scenes)
          /\ \A k \in 1..Len(Scenes) :
                /\ project'[1].scenes[k].isApproved = Scenes[k].isApproved
                /\ project'[1].scenes[k].storyboardPrompt = Scenes[k].storyboardPrompt]_vars

\* C20: an absent project becomes present only by a script submit that ends
\* with a successful analysis, whatever request completes in between.
C20_ResetStaysReset ==
    [][(project = None /\ project' # None) =>
          \E r \in requests, response \in SceneEnv.analyses :
              ScriptSubmitResumes(r, analyzeScript(response))]_vars

\* What does hold: a bulk run that completes after a reset leaves the project absent.
BulkAfterResetStaysReset ==
    [][(project = None /\ Running("bulk")) => project' = None]_vars

====
